---- MODULE Spec2Model ----
(***************************************************************************)
(* Variable Similarity Matching Engine of AppDiabetes.                     *)
(*                                                                         *)
(* A text is a sequence of characters; a character is a one-letter string, *)
(* or the code point name ("U00E1") of a character outside ASCII.          *)
(* A float score is the exact rational 2*M/T kept as [num, den]; the       *)
(* threshold is an integer count of 1/UmbralEscala; a value rounded to     *)
(* DECIMALES places is an integer count of 1/10^DECIMALES.                 *)
(* An Optional value is <<>> (None) or <<v>>.                              *)
(*                                                                         *)
(* resultado is the MatchResult of the last search and umbral_busqueda the *)
(* value of self.umbral_similitud that search read (the diet result does   *)
(* not carry it).                                                          *)
(*                                                                         *)
(* entrada holds the arguments of the operation a specification applies    *)
(* and salida what it returned: the result list and the suggestions of a   *)
(* search of all variables, or the statistics of a result list and the     *)
(* state derived from them. cobertura_porcentaje is an integer count of    *)
(* 1/10 percent.                                                           *)
(*                                                                         *)
(* _variables is the mapping of the variable store (a function from key to *)
(* synonym list), predeterminadas the module-level DEFAULT_VARIABLES whose *)
(* lists the store shares, archivo the mapping last written to the         *)
(* configuration file, retorno the last call and what it returned, and     *)
(* peticiones the requests in flight on the shared engine.                 *)
(***************************************************************************)
EXTENDS Integers, Sequences, FiniteSets, TLC

VARIABLES texto1, texto2, salida, umbral_similitud, entrada, resultado, umbral_busqueda,
          _variables, predeterminadas, archivo, retorno, peticiones

\* the variable store, the last return value and the requests in flight
vars_llamadas == <<_variables, predeterminadas, archivo, retorno, peticiones>>

vars == <<texto1, texto2, salida, umbral_similitud, entrada, resultado, umbral_busqueda,
          vars_llamadas>>

(***************************************************************************)
(* Bounds of the model.                                                    *)
(***************************************************************************)
MaxTexto == 3      \* longest raw text given to normalizar_texto
MaxSim == 3        \* longest text given to calcular_similitud
MaxColumnas == 2   \* most columns in a dataset header
MaxSinonimos == 2  \* most synonyms of a variable
MaxVariables == 2  \* most variables in the configured mapping
MaxLlamadas == 3   \* most calls made on one VariableManager
MaxPeticiones == 2 \* analizar_dataset requests served at once
MaxResultados == 8 \* longest result list given to obtener_estadisticas_busqueda

None == <<>>
Some(v) == <<v>>

\* no variable store, no recorded call and no request: the engine alone
SinLlamadas ==
    /\ _variables = None
    /\ predeterminadas = None
    /\ archivo = None
    /\ retorno = None
    /\ peticiones = None

RECURSIVE SeqsHasta(_, _)
\* all sequences over S of length at most n
SeqsHasta(S, n) ==
    IF n = 0 THEN {<<>>}
    ELSE LET menor == SeqsHasta(S, n - 1)
         IN  menor \cup {Append(s, c) : s \in {t \in menor : Len(t) = n - 1}, c \in S}

(***************************************************************************)
(* Characters: str.lower, unicodedata.normalize("NFD"), category, classes  *)
(***************************************************************************)
Mayusculas == <<"A","B","C","D","E","F","G","H","I","J","K","L","M",
                "N","O","P","Q","R","S","T","U","V","W","X","Y","Z">>
Minusculas == <<"a","b","c","d","e","f","g","h","i","j","k","l","m",
                "n","o","p","q","r","s","t","u","v","w","x","y","z">>
Digitos == {"0","1","2","3","4","5","6","7","8","9"}

\* U00C1 = A with acute, U00E1 = a with acute, U00D1 / U00F1 = N / n with
\* tilde, U0301 = combining acute, U0303 = combining tilde
LowerChar(c) ==
    IF \E i \in 1..26 : Mayusculas[i] = c
    THEN Minusculas[CHOOSE i \in 1..26 : Mayusculas[i] = c]
    ELSE IF c = "U00C1" THEN "U00E1"
    ELSE IF c = "U00D1" THEN "U00F1"
    ELSE c

NFDChar(c) ==
    IF c = "U00E1" THEN <<"a", "U0301">>
    ELSE IF c = "U00C1" THEN <<"A", "U0301">>
    ELSE IF c = "U00F1" THEN <<"n", "U0303">>
    ELSE IF c = "U00D1" THEN <<"N", "U0303">>
    ELSE <<c>>

EsMn(c) == c \in {"U0301", "U0303"}

EsAZ09(c) == (\E i \in 1..26 : Minusculas[i] = c) \/ c \in Digitos

EsEspacio(c) == c \in {" ", "TAB"}

(***************************************************************************)
(* normalizar_texto, step by step                                          *)
(***************************************************************************)
\* str.strip(): from the first to the last character that is not whitespace
Strip(s) ==
    LET visibles == {i \in 1..Len(s) : ~EsEspacio(s[i])}
    IN  IF visibles = {} THEN <<>>
        ELSE SubSeq(s, CHOOSE i \in visibles : \A j \in visibles : i <= j,
                       CHOOSE i \in visibles : \A j \in visibles : i >= j)

Lower(s) == [i \in 1..Len(s) |-> LowerChar(s[i])]

\* unicodedata.normalize("NFD", s): every character by its decomposition
NFD(s) ==
    LET hasta[i \in 0..Len(s)] ==
            IF i = 0 THEN <<>> ELSE hasta[i - 1] \o NFDChar(s[i])
    IN  hasta[Len(s)]

QuitarMn(s) == SelectSeq(s, LAMBDA c : ~EsMn(c))

\* the two character classes of the regular expressions of normalizar_texto
EnClase(clase, c) == IF clase = "[^a-z0-9]" THEN ~EsAZ09(c) ELSE EsEspacio(c)

\* re.sub(clase + "+", " ", s): every maximal run of the class becomes one
\* space, the other characters stay
ReSub(clase, s) ==
    LET hasta[i \in 0..Len(s)] ==
            IF i = 0 THEN <<>>
            ELSE IF ~EnClase(clase, s[i]) THEN Append(hasta[i - 1], s[i])
            ELSE IF i > 1 /\ EnClase(clase, s[i - 1]) THEN hasta[i - 1]
            ELSE Append(hasta[i - 1], " ")
    IN  hasta[Len(s)]

\* as normalizar_texto, the final strip() left out
normalizar_sin_strip_final(texto) ==
    ReSub("\\s", ReSub("[^a-z0-9]", QuitarMn(NFD(Lower(Strip(texto))))))


(***************************************************************************)
(* Texts of the search inputs                                              *)
(***************************************************************************)
Claves == { <<"d","i","e","t","a">>, <<"D","i","e","t","a">>,
            <<"d","i","e","t">>, <<"b","m","i">> }

\* column names: an empty header cell, a fruit column with a capital, a
\* vegetable column
ColumnasPosibles == { <<>>, <<"F","r","u","t">>, <<"v","e","g","e","t","a","l">> }

\* synonyms: a near match of the fruit column, an exact match of the vegetable
\* column, one that normalizes to the empty text
SinonimosPosibles == { <<"f","r","u">>, <<"v","e","g","e","t","a","l">>, <<"_">> }

\* column names for the buckets of the diet policy: one with a fruit and a
\* vegetable keyword, a vegetable column with a capital, a fruit column, one
\* with no keyword
ColumnasDieta == { <<"f","r","u","t","v","e","r","d","u","r","a">>,
                   <<"V","e","r","d","u","r","a">>,
                   <<"f","r","u","t">>,
                   <<"x">> }

\* synonyms for the buckets: one that is a fruit keyword, one with no keyword
SinonimosDieta == { <<"f","r","u","t">>, <<"x">> }

(***************************************************************************)
(* difflib.SequenceMatcher(None, a, b).ratio(), no junk (isjunk is None,   *)
(* and the automatic junk heuristic needs len(b) >= 200)                   *)
(***************************************************************************)
\* a[i..i+k-1] = b[j..j+k-1]
Coinciden(a, b, i, j, k) == \A d \in 0..(k - 1) : a[i + d] = b[j + d]

\* find_longest_match(alo, ahi, blo, bhi) over the half-open, 1-based windows
\* a[alo..ahi-1], b[blo..bhi-1]: the longest common block, the one starting
\* earliest in a, and of those the one starting earliest in b
find_longest_match(a, b, alo, ahi, blo, bhi) ==
    LET Bloques == {t \in (alo..(ahi - 1)) \X (blo..(bhi - 1)) \X (1..(ahi - alo)) :
                       /\ t[1] + t[3] <= ahi
                       /\ t[2] + t[3] <= bhi
                       /\ Coinciden(a, b, t[1], t[2], t[3])}
    IN  IF Bloques = {} THEN <<alo, blo, 0>>
        ELSE CHOOSE t \in Bloques :
                \A u \in Bloques :
                    \/ t[3] > u[3]
                    \/ t[3] = u[3] /\ t[1] < u[1]
                    \/ t[3] = u[3] /\ t[1] = u[1] /\ t[2] <= u[2]

\* sum of the sizes of get_matching_blocks(): the longest block of the
\* window, then the blocks of what lies left of it and of what lies right of it
matching_total(a, b, alo, ahi, blo, bhi) ==
    LET Ventanas == (1..(Len(a) + 1)) \X (1..(Len(a) + 1))
                        \X (1..(Len(b) + 1)) \X (1..(Len(b) + 1))
        total[w \in Ventanas] ==
            LET m == find_longest_match(a, b, w[1], w[2], w[3], w[4])
                i == m[1]
                j == m[2]
                k == m[3]
            IN  IF k = 0 THEN 0
                ELSE k + (IF w[1] < i /\ w[3] < j
                          THEN total[<<w[1], i, w[3], j>>] ELSE 0)
                       + (IF i + k < w[2] /\ j + k < w[4]
                          THEN total[<<i + k, w[2], j + k, w[4]>>] ELSE 0)
    IN  total[<<alo, ahi, blo, bhi>>]

\* as calculate_ratio, the factor 2.0 left out
calculate_ratio_sin_doble(matches, length) ==
    IF length > 0 THEN [num |-> matches, den |-> length] ELSE [num |-> 1, den |-> 1]

\* _calculate_ratio(matches, length): 2.0 * matches / length, 1.0 if length = 0
calculate_ratio(matches, length) ==
    IF length > 0 THEN [num |-> 2 * matches, den |-> length] ELSE [num |-> 1, den |-> 1]

ratio(a, b) ==
    calculate_ratio(matching_total(a, b, 1, Len(a) + 1, 1, Len(b) + 1), Len(a) + Len(b))

\* the steps of normalizar_texto, in the order of the code
normalizar(texto) ==
    Strip(ReSub("\\s", ReSub("[^a-z0-9]", QuitarMn(NFD(Lower(Strip(texto)))))))

\* the normal forms of the texts of the search inputs, computed once
NormalizadosDeBusqueda ==
    {<<t, normalizar(t)>> : t \in ColumnasPosibles \cup SinonimosPosibles
                                  \cup ColumnasDieta \cup SinonimosDieta}

normalizar_texto(texto) ==
    IF \E n \in NormalizadosDeBusqueda : n[1] = texto
    THEN (CHOOSE n \in NormalizadosDeBusqueda : n[1] = texto)[2]
    ELSE normalizar(texto)

\* the ratios of the normalized texts of the search inputs, computed once
RatiosDeBusqueda ==
    {<<a, b, ratio(a, b)>> : a \in {n[2] : n \in NormalizadosDeBusqueda},
                             b \in {n[2] : n \in NormalizadosDeBusqueda}}

calcular_similitud(texto1_, texto2_) ==
    IF \E r \in RatiosDeBusqueda : r[1] = texto1_ /\ r[2] = texto2_
    THEN (CHOOSE r \in RatiosDeBusqueda : r[1] = texto1_ /\ r[2] = texto2_)[3]
    ELSE ratio(texto1_, texto2_)

\* comparisons of scores
Igual(x, y) == x.num * y.den = y.num * x.den
Mayor(x, y) == x.num * y.den > y.num * x.den
MayorIgual(x, y) == x.num * y.den >= y.num * x.den
Cero == [num |-> 0, den |-> 1]
Uno == [num |-> 1, den |-> 1]


(***************************************************************************)
(* Units of the numbers                                                    *)
(***************************************************************************)
RECURSIVE Pot10(_)
Pot10(d) == IF d = 0 THEN 1 ELSE 10 * Pot10(d - 1)

\* thresholds are whole multiples of 1/UmbralEscala (four decimals)
UmbralEscala == Pot10(4)

\* Config.SIMILARITY_THRESHOLD = 0.6
SIMILARITY_THRESHOLD == 6 * Pot10(3)

\* the digits kept by round(score, 3)
DECIMALES == 3

\* round(x, d) as a count of 1/10^d: the nearest one, an exact tie to even
round(x, d) ==
    LET q == (x.num * Pot10(d)) \div x.den
        r == (x.num * Pot10(d)) % x.den
    IN  IF 2 * r < x.den THEN q
        ELSE IF 2 * r > x.den THEN q + 1
        ELSE IF q % 2 = 0 THEN q ELSE q + 1

\* as ScoreAlcanza, the comparison turned round
ScoreAlcanza_invertido(score, umbral) == score.num * UmbralEscala <= umbral * score.den

\* score >= umbral, the score a rational and the threshold in 1/UmbralEscala
ScoreAlcanza(score, umbral) == score.num * UmbralEscala >= umbral * score.den

\* a value rounded to DECIMALES places >= a threshold
ConfianzaAlcanza(confianza, umbral) == confianza * UmbralEscala >= umbral * Pot10(DECIMALES)

(***************************************************************************)
(* construir_candidatos                                                    *)
(***************************************************************************)
construir_candidatos(columnas) ==
    [i \in 1..Len(columnas) |-> <<columnas[i], normalizar_texto(columnas[i])>>]

\* str(x) if x else None, for an Optional text x: None and "" both give None
StrONone(x) == IF x # None /\ x[1] # <<>> THEN x ELSE None

(***************************************************************************)
(* SimilarityEngine.buscar_variable_simple                                 *)
(***************************************************************************)
\* one pass of the body of the two nested loops, for the k-th pair of the scan
\* (candidates outside, synonyms inside)
\* as paso_simple, the comparison turned round
paso_simple_invertido(candidatos, sinonimos, k, mejor) ==
    LET m == Len(sinonimos)
        i == ((k - 1) \div m) + 1
        j == ((k - 1) % m) + 1
        score == calcular_similitud(candidatos[i][2], normalizar_texto(sinonimos[j]))
    IN  IF Mayor(mejor.score, score)
        THEN [score |-> score, columna |-> Some(candidatos[i][1]),
              sinonimo |-> Some(sinonimos[j])]
        ELSE mejor

paso_simple(candidatos, sinonimos, k, mejor) ==
    LET m == Len(sinonimos)
        i == ((k - 1) \div m) + 1
        j == ((k - 1) % m) + 1
        score == calcular_similitud(candidatos[i][2], normalizar_texto(sinonimos[j]))
    IN  IF Mayor(score, mejor.score)
        THEN [score |-> score, columna |-> Some(candidatos[i][1]),
              sinonimo |-> Some(sinonimos[j])]
        ELSE mejor

RECURSIVE bucle_simple(_, _, _, _)
bucle_simple(candidatos, sinonimos, k, mejor) ==
    IF k > Len(candidatos) * Len(sinonimos) THEN mejor
    ELSE bucle_simple(candidatos, sinonimos, k + 1,
                      paso_simple(candidatos, sinonimos, k, mejor))

mejor_simple(sinonimos, columnas) ==
    bucle_simple(construir_candidatos(columnas), sinonimos, 1,
                 [score |-> Cero, columna |-> None, sinonimo |-> None])

\* as buscar_variable_simple, a match that is not accepted reported as 0.0
buscar_variable_simple_cero(umbral, variable_key, sinonimos, columnas) ==
    LET mejor == mejor_simple(sinonimos, columnas)
    IN  [encontrada |-> ScoreAlcanza(mejor.score, umbral),
         columna |-> StrONone(mejor.columna),
         confianza |-> IF ScoreAlcanza(mejor.score, umbral)
                       THEN round(mejor.score, DECIMALES) ELSE 0,
         sinonimo_match |-> StrONone(mejor.sinonimo),
         umbral_usado |-> umbral]

buscar_variable_simple(umbral, variable_key, sinonimos, columnas) ==
    LET mejor == mejor_simple(sinonimos, columnas)
    IN  [encontrada |-> ScoreAlcanza(mejor.score, umbral),
         columna |-> StrONone(mejor.columna),
         confianza |-> round(mejor.score, DECIMALES),
         sinonimo_match |-> StrONone(mejor.sinonimo),
         umbral_usado |-> umbral]

(***************************************************************************)
(* SimilarityEngine.buscar_variable_dieta_especial                         *)
(***************************************************************************)
palabras_frutas == << <<"f","r","u","t">>, <<"f","r","u","i","t">> >>
palabras_vegetales == << <<"v","e","g","e","t","a","l">>,
                         <<"v","e","r","d","u","r","a">>,
                         <<"v","e","g","e","t","a","b","l","e">> >>

\* palabra in normalizado (substring test)
Contiene(normalizado, palabra) ==
    \E i \in 1..(Len(normalizado) - Len(palabra) + 1) :
        SubSeq(normalizado, i, i + Len(palabra) - 1) = palabra

\* any(palabra in normalizado for palabra in palabras)
AlgunaEn(palabras, normalizado) ==
    \E p \in 1..Len(palabras) : Contiene(normalizado, palabras[p])

\* as clasificar, the vegetable keywords tested before the fruit keywords
clasificar_vegetal_primero(normalizado) ==
    IF AlgunaEn(palabras_vegetales, normalizado) THEN "vegetales"
    ELSE IF AlgunaEn(palabras_frutas, normalizado) THEN "frutas"
    ELSE "generales"

\* the bucket of an accepted match: if / elif / else on the normalized column
clasificar(normalizado) ==
    IF AlgunaEn(palabras_frutas, normalizado) THEN "frutas"
    ELSE IF AlgunaEn(palabras_vegetales, normalizado) THEN "vegetales"
    ELSE "generales"

\* as paso_dieta, the vegetable test an if of its own instead of an elif
paso_dieta_sin_elif(umbral, candidatos, sinonimos, k, c) ==
    LET m == Len(sinonimos)
        i == ((k - 1) \div m) + 1
        j == ((k - 1) % m) + 1
        score == calcular_similitud(candidatos[i][2], normalizar_texto(sinonimos[j]))
        match == <<candidatos[i][1], score, sinonimos[j]>>
        c1 == IF AlgunaEn(palabras_frutas, candidatos[i][2])
              THEN [c EXCEPT !.frutas = Append(@, match)] ELSE c
    IN  IF ScoreAlcanza(score, umbral)
        THEN IF AlgunaEn(palabras_vegetales, candidatos[i][2])
             THEN [c1 EXCEPT !.vegetales = Append(@, match)]
             ELSE [c1 EXCEPT !.generales = Append(@, match)]
        ELSE c

\* one pass of the body of the two nested loops, for the k-th pair of the scan
paso_dieta(umbral, candidatos, sinonimos, k, c) ==
    LET m == Len(sinonimos)
        i == ((k - 1) \div m) + 1
        j == ((k - 1) % m) + 1
        score == calcular_similitud(candidatos[i][2], normalizar_texto(sinonimos[j]))
        match == <<candidatos[i][1], score, sinonimos[j]>>
        tipo == clasificar(candidatos[i][2])
    IN  IF ScoreAlcanza(score, umbral)
        THEN [c EXCEPT ![tipo] = Append(@, match)]
        ELSE c

RECURSIVE bucle_dieta(_, _, _, _, _)
bucle_dieta(umbral, candidatos, sinonimos, k, c) ==
    IF k > Len(candidatos) * Len(sinonimos) THEN c
    ELSE bucle_dieta(umbral, candidatos, sinonimos, k + 1,
                     paso_dieta(umbral, candidatos, sinonimos, k, c))

coincidencias_dieta(umbral, sinonimos, columnas) ==
    bucle_dieta(umbral, construir_candidatos(columnas), sinonimos, 1,
                [frutas |-> <<>>, vegetales |-> <<>>, generales |-> <<>>])

\* insert x into a list sorted by descending score, behind its equals
RECURSIVE insertar_desc(_, _)
insertar_desc(ordenada, x) ==
    IF ordenada = <<>> THEN <<x>>
    ELSE IF Mayor(x[2], Head(ordenada)[2]) THEN <<x>> \o ordenada
    ELSE <<Head(ordenada)>> \o insertar_desc(Tail(ordenada), x)

RECURSIVE sort_desc(_, _)
\* list.sort(key=lambda x: x[1], reverse=True): stable, equal scores keep
\* their order
sort_desc(pendientes, ordenada) ==
    IF pendientes = <<>> THEN ordenada
    ELSE sort_desc(Tail(pendientes), insertar_desc(ordenada, Head(pendientes)))

\* the notes: one (label, count) per non-empty bucket, joined in this order
notas_dieta(c) ==
    (IF c.frutas # <<>>
     THEN << [texto |-> "Frutas detectadas", n |-> Len(c.frutas)] >> ELSE <<>>)
    \o (IF c.vegetales # <<>>
        THEN << [texto |-> "Vegetales detectados", n |-> Len(c.vegetales)] >> ELSE <<>>)
    \o (IF c.generales # <<>>
        THEN << [texto |-> "Dieta general", n |-> Len(c.generales)] >> ELSE <<>>)

\* as buscar_variable_dieta_especial, the general bucket left out of the list
\* of all matches
buscar_variable_dieta_sin_generales(umbral, sinonimos, columnas) ==
    LET c == coincidencias_dieta(umbral, sinonimos, columnas)
        todas_coincidencias == sort_desc(c.frutas \o c.vegetales, <<>>)
        mejor_match == todas_coincidencias[1]
    IN  IF todas_coincidencias # <<>>
        THEN [encontrada |-> TRUE,
              columna |-> Some(mejor_match[1]),
              confianza |-> round(mejor_match[2], DECIMALES),
              sinonimo_match |-> Some(mejor_match[3]),
              notas |-> notas_dieta(c),
              detalles |-> c]
        ELSE [encontrada |-> FALSE,
              columna |-> None,
              confianza |-> 0,
              sinonimo_match |-> None,
              notas |-> << [texto |-> "No se encontraron coincidencias de dieta", n |-> 0] >>,
              detalles |-> [frutas |-> <<>>, vegetales |-> <<>>, generales |-> <<>>]]

buscar_variable_dieta_especial(umbral, sinonimos, columnas) ==
    LET c == coincidencias_dieta(umbral, sinonimos, columnas)
        todas_coincidencias == sort_desc(c.frutas \o c.vegetales \o c.generales, <<>>)
        mejor_match == todas_coincidencias[1]
    IN  IF todas_coincidencias # <<>>
        THEN [encontrada |-> TRUE,
              columna |-> Some(mejor_match[1]),
              confianza |-> round(mejor_match[2], DECIMALES),
              sinonimo_match |-> Some(mejor_match[3]),
              notas |-> notas_dieta(c),
              detalles |-> c]
        ELSE [encontrada |-> FALSE,
              columna |-> None,
              confianza |-> 0,
              sinonimo_match |-> None,
              notas |-> << [texto |-> "No se encontraron coincidencias de dieta", n |-> 0] >>,
              detalles |-> [frutas |-> <<>>, vegetales |-> <<>>, generales |-> <<>>]]

(***************************************************************************)
(* SimilarityEngine.buscar_variable                                        *)
(***************************************************************************)
dieta == <<"d","i","e","t","a">>

EsClaveDieta(variable_key) == Lower(variable_key) = dieta

\* as buscar_variable, the key compared as given
buscar_variable_sin_lower(umbral, variable_key, sinonimos, columnas) ==
    IF variable_key = dieta
    THEN buscar_variable_dieta_especial(umbral, sinonimos, columnas)
    ELSE buscar_variable_simple(umbral, variable_key, sinonimos, columnas)

buscar_variable(umbral, variable_key, sinonimos, columnas) ==
    IF EsClaveDieta(variable_key)
    THEN buscar_variable_dieta_especial(umbral, sinonimos, columnas)
    ELSE buscar_variable_simple(umbral, variable_key, sinonimos, columnas)

(***************************************************************************)
(* SimilarityEngine.ajustar_umbral                                         *)
(***************************************************************************)
\* as ajustar_umbral, the bounds 0.0 and 1.0 left out of the range
ajustar_umbral_abierto(umbral, nuevo_umbral) ==
    IF 0 < nuevo_umbral /\ nuevo_umbral < UmbralEscala THEN nuevo_umbral ELSE umbral

\* self.umbral_similitud after ajustar_umbral(nuevo_umbral)
ajustar_umbral(umbral, nuevo_umbral) ==
    IF 0 <= nuevo_umbral /\ nuevo_umbral <= UmbralEscala THEN nuevo_umbral ELSE umbral

\* what ajustar_umbral(nuevo_umbral) returns
ajustar_umbral_retorno(nuevo_umbral) ==
    0 <= nuevo_umbral /\ nuevo_umbral <= UmbralEscala

\* SimilarityEngine.__init__: umbral_similitud or Config.SIMILARITY_THRESHOLD
umbral_inicial(argumento) ==
    IF argumento # None /\ argumento[1] # 0 THEN argumento[1] ELSE SIMILARITY_THRESHOLD

(***************************************************************************)
(* SimilarityEngine.buscar_todas_variables                                 *)
(* variables_config, a dict, is the sequence of its items() in insertion   *)
(* order: pairs <<variable_key, sinonimos>> with distinct keys             *)
(***************************************************************************)
\* resultado['variable'] = variable_key
etiquetar(resultado_, variable_key) ==
    [campo \in DOMAIN resultado_ \cup {"variable"} |->
        IF campo = "variable" THEN variable_key ELSE resultado_[campo]]

RECURSIVE bucle_todas_al_frente(_, _, _, _, _)
\* as bucle_todas, each result put in front of the list
bucle_todas_al_frente(umbral, items, columnas, k, resultados) ==
    IF k > Len(items) THEN resultados
    ELSE bucle_todas_al_frente(umbral, items, columnas, k + 1,
             <<etiquetar(buscar_variable(umbral, items[k][1], items[k][2], columnas),
                         items[k][1])>> \o resultados)

RECURSIVE bucle_todas(_, _, _, _, _)
\* the loop over variables_config.items(), from the k-th item on
bucle_todas(umbral, items, columnas, k, resultados) ==
    IF k > Len(items) THEN resultados
    ELSE bucle_todas(umbral, items, columnas, k + 1,
             Append(resultados,
                    etiquetar(buscar_variable(umbral, items[k][1], items[k][2], columnas),
                              items[k][1])))

buscar_todas_variables(umbral, variables_config, columnas) ==
    bucle_todas(umbral, variables_config, columnas, 1, <<>>)

RECURSIVE construcciones_de_candidatos(_, _, _)
\* the calls of construir_candidatos(columnas) during the loop, from the k-th
\* item on: buscar_variable_simple and buscar_variable_dieta_especial each
\* start with one, whatever the variable
construcciones_de_candidatos(items, columnas, k) ==
    IF k > Len(items) THEN <<>>
    ELSE <<construir_candidatos(columnas)>>
         \o construcciones_de_candidatos(items, columnas, k + 1)

\* the column normalizations of one call of buscar_todas_variables: one per
\* candidate of each construction
normalizaciones_de_columnas(variables_config, columnas) ==
    LET construcciones == construcciones_de_candidatos(variables_config, columnas, 1)
        total[k \in 0..Len(construcciones)] ==
            IF k = 0 THEN 0 ELSE total[k - 1] + Len(construcciones[k])
    IN  total[Len(construcciones)]

(***************************************************************************)
(* SimilarityEngine.obtener_estadisticas_busqueda                          *)
(* cobertura_porcentaje is a count of 1/10 percent, confianza_promedio a   *)
(* count of 1/1000                                                         *)
(***************************************************************************)
\* [r['variable'] for r in resultados if not r['encontrada']]
variables_no_encontradas(resultados) ==
    LET faltan == SelectSeq(resultados, LAMBDA r : ~r.encontrada)
    IN  [i \in 1..Len(faltan) |-> faltan[i].variable]

\* as confianzas_encontradas, without the filter on encontrada
confianzas_de_todas(resultados) ==
    [i \in 1..Len(resultados) |-> resultados[i].confianza]

\* [r['confianza'] for r in resultados if r['encontrada']]
confianzas_encontradas(resultados) ==
    LET hay == SelectSeq(resultados, LAMBDA r : r.encontrada)
    IN  [i \in 1..Len(hay) |-> hay[i].confianza]

RECURSIVE sum(_)
sum(valores) == IF valores = <<>> THEN 0 ELSE Head(valores) + sum(Tail(valores))

\* the digits kept by round(cobertura, 1)
DECIMALES_COBERTURA == 1

\* the values round(sum(confianzas) / len(confianzas), 3) can take, 0.0 for no
\* confidence. The quotient of two floats is within 1e-15 of the exact mean,
\* so it rounds as the exact mean does unless that lies exactly between two
\* thousandths: then the binary value of the quotient decides, and either
\* neighbour can come out ((1.0 + 0.857) / 2 gives 0.928, (1.0 + 0.889) / 2
\* gives 0.945).
confianzas_promedio(confianzas) ==
    LET s == sum(confianzas)
        n == Len(confianzas)
    IN  IF confianzas = <<>> THEN {0}
        ELSE IF 2 * (s % n) = n THEN {s \div n, (s \div n) + 1}
        ELSE {round([num |-> s, den |-> n * Pot10(DECIMALES)], DECIMALES)}

\* round((variables_encontradas / total_variables) * 100, 1), 0.0 for no
\* result; the exact quotient lies between two tenths only for a total that
\* is a multiple of 16
cobertura_porcentaje(variables_encontradas, total_variables) ==
    IF total_variables > 0
    THEN round([num |-> variables_encontradas * 100, den |-> total_variables],
               DECIMALES_COBERTURA)
    ELSE 0

\* as obtener_estadisticas_busqueda, the found variables counted over the
\* found ones instead of over all
obtener_estadisticas_sobre_encontradas(umbral, resultados, confianza_promedio) ==
    LET variables_encontradas == Len(SelectSeq(resultados, LAMBDA r : r.encontrada))
    IN  [total_variables |-> Len(resultados),
         variables_encontradas |-> variables_encontradas,
         variables_faltantes |-> variables_no_encontradas(resultados),
         cobertura_porcentaje |->
             cobertura_porcentaje(variables_encontradas, variables_encontradas),
         confianza_promedio |-> confianza_promedio,
         umbral_usado |-> umbral]

\* the statistics of a result list; confianza_promedio is the value the
\* rounding of the mean produced, one of confianzas_promedio
obtener_estadisticas_busqueda(umbral, resultados, confianza_promedio) ==
    LET variables_encontradas == Len(SelectSeq(resultados, LAMBDA r : r.encontrada))
    IN  [total_variables |-> Len(resultados),
         variables_encontradas |-> variables_encontradas,
         variables_faltantes |-> variables_no_encontradas(resultados),
         cobertura_porcentaje |->
             cobertura_porcentaje(variables_encontradas, Len(resultados)),
         confianza_promedio |-> confianza_promedio,
         umbral_usado |-> umbral]

(***************************************************************************)
(* SimilarityEngine.obtener_sugerencias_mejora                             *)
(* a suggestion is the fixed text of its f-string (unaccented) with the    *)
(* values formatted into it                                                *)
(***************************************************************************)
\* set(r['columna'] for r in resultados if r['encontrada']): Optional values
columnas_usadas(resultados) ==
    {resultados[i].columna : i \in {j \in 1..Len(resultados) : resultados[j].encontrada}}

\* set(columnas) - columnas_usadas: None is no column name
columnas_no_usadas(resultados, columnas) ==
    {columnas[i] : i \in 1..Len(columnas)}
        \ {c[1] : c \in {u \in columnas_usadas(resultados) : u # None}}

\* [r['variable'] for r in resultados if r['encontrada'] and r['confianza'] < 0.9]
variables_bc(resultados) ==
    LET baja_confianza == SelectSeq(resultados,
                                    LAMBDA r : r.encontrada /\ r.confianza < 900)
    IN  [i \in 1..Len(baja_confianza) |-> baja_confianza[i].variable]

\* as obtener_sugerencias_mejora, the low confidences looked at only when no
\* variable is missing
obtener_sugerencias_con_elif(resultados, columnas) ==
    LET no_encontradas == variables_no_encontradas(resultados)
        sin_usar == columnas_no_usadas(resultados, columnas)
    IN  (IF no_encontradas # <<>>
         THEN << [texto |-> "Considere agregar sinonimos para",
                  variables |-> no_encontradas] >>
         ELSE IF variables_bc(resultados) # <<>>
         THEN << [texto |-> "Revise las coincidencias con baja confianza",
                  variables |-> variables_bc(resultados)] >>
         ELSE <<>>)
        \o (IF 2 * Cardinality(sin_usar) > Len(columnas)
            THEN << [texto |-> "columnas sin clasificar", n |-> Cardinality(sin_usar)] >>
            ELSE <<>>)

\* len(columnas_no_usadas) > len(columnas) * 0.5 as 2 * len(...) > len(columnas)
obtener_sugerencias_mejora(resultados, columnas) ==
    LET no_encontradas == variables_no_encontradas(resultados)
        sin_usar == columnas_no_usadas(resultados, columnas)
    IN  (IF no_encontradas # <<>>
         THEN << [texto |-> "Considere agregar sinonimos para",
                  variables |-> no_encontradas] >>
         ELSE <<>>)
        \o (IF variables_bc(resultados) # <<>>
            THEN << [texto |-> "Revise las coincidencias con baja confianza",
                     variables |-> variables_bc(resultados)] >>
            ELSE <<>>)
        \o (IF 2 * Cardinality(sin_usar) > Len(columnas)
            THEN << [texto |-> "columnas sin clasificar", n |-> Cardinality(sin_usar)] >>
            ELSE <<>>)

(***************************************************************************)
(* ReportGenerator._determinar_estado_general                              *)
(***************************************************************************)
\* as _determinar_estado_general, the tests from the weakest to the strongest
_determinar_estado_general_al_reves(estadisticas) ==
    LET cobertura == estadisticas.cobertura_porcentaje
        confianza == estadisticas.confianza_promedio
    IN  IF cobertura >= 40 * Pot10(DECIMALES_COBERTURA) /\ confianza >= 700 THEN "regular"
        ELSE IF cobertura >= 60 * Pot10(DECIMALES_COBERTURA) /\ confianza >= 800 THEN "bueno"
        ELSE IF cobertura >= 80 * Pot10(DECIMALES_COBERTURA) /\ confianza >= 900 THEN "excelente"
        ELSE "deficiente"

\* 80, 60 and 40 percent in 1/10 percent; 0.9, 0.8 and 0.7 in 1/1000
_determinar_estado_general(estadisticas) ==
    LET cobertura == estadisticas.cobertura_porcentaje
        confianza == estadisticas.confianza_promedio
    IN  IF cobertura >= 80 * Pot10(DECIMALES_COBERTURA) /\ confianza >= 900 THEN "excelente"
        ELSE IF cobertura >= 60 * Pot10(DECIMALES_COBERTURA) /\ confianza >= 800 THEN "bueno"
        ELSE IF cobertura >= 40 * Pot10(DECIMALES_COBERTURA) /\ confianza >= 700 THEN "regular"
        ELSE "deficiente"

(***************************************************************************)
(* VariableManager                                                         *)
(* The mapping is a function from key to entry. DEFAULT_VARIABLES.copy()   *)
(* is a shallow copy: an entry with compartida = TRUE is the very list     *)
(* object of DEFAULT_VARIABLES under that key, its content the one in      *)
(* predeterminadas; an entry with compartida = FALSE is a list of its own. *)
(* An operation gives the mapping and the defaults it leaves, whether it   *)
(* ends in _guardar_variables() (guarda), and what it returns when not.    *)
(***************************************************************************)
\* self._variables[nombre], the list as it reads
lista_de_variable(variables, pred, nombre) ==
    IF variables[nombre].compartida THEN pred[nombre] ELSE variables[nombre].lista

\* what json.dump(self._variables) writes, and what the store answers
contenido(variables, pred) ==
    [nombre \in DOMAIN variables |-> lista_de_variable(variables, pred, nombre)]

\* [s.strip() for s in sinonimos if s.strip()]
sinonimos_limpios(sinonimos) ==
    LET quedan == SelectSeq(sinonimos, LAMBDA t : Strip(t) # <<>>)
    IN  [i \in 1..Len(quedan) |-> Strip(quedan[i])]

\* x in lista
EstaEn(lista, x) == \E i \in 1..Len(lista) : lista[i] = x

\* lista.remove(x): without the first x
remove(lista, x) ==
    LET i == CHOOSE j \in 1..Len(lista) :
                 lista[j] = x /\ \A k \in 1..(j - 1) : lista[k] # x
    IN  SubSeq(lista, 1, i - 1) \o SubSeq(lista, i + 1, Len(lista))

\* self._variables[nombre] = lista, a new list object
con_lista_propia(variables, nombre, lista) ==
    [n \in DOMAIN variables \cup {nombre} |->
        IF n = nombre THEN [compartida |-> FALSE, lista |-> lista] ELSE variables[n]]

\* the list object under nombre changed in place: through the mapping, and
\* in DEFAULT_VARIABLES when it is the shared object
lista_cambiada(variables, pred, nombre, lista) ==
    IF variables[nombre].compartida
    THEN [_variables |-> variables,
          predeterminadas |-> [n \in DOMAIN pred |-> IF n = nombre THEN lista ELSE pred[n]]]
    ELSE [_variables |-> [variables EXCEPT ![nombre].lista = lista],
          predeterminadas |-> pred]

\* an operation that returns without touching anything
sin_cambio(variables, pred, valor) ==
    [_variables |-> variables, predeterminadas |-> pred, guarda |-> FALSE, valor |-> valor]

\* as crear_variable, the name only stripped, not lower-cased
crear_variable_sin_lower(variables, pred, nombre, sinonimos) ==
    LET nombre_lower == Strip(nombre)
    IN  IF nombre_lower = <<>> \/ nombre_lower \in DOMAIN variables
        THEN sin_cambio(variables, pred, FALSE)
        ELSE IF sinonimos_limpios(sinonimos) = <<>>
        THEN sin_cambio(variables, pred, FALSE)
        ELSE [_variables |->
                  con_lista_propia(variables, nombre_lower, sinonimos_limpios(sinonimos)),
              predeterminadas |-> pred, guarda |-> TRUE, valor |-> TRUE]

crear_variable(variables, pred, nombre, sinonimos) ==
    LET nombre_lower == Strip(Lower(nombre))
    IN  IF nombre_lower = <<>> \/ nombre_lower \in DOMAIN variables
        THEN sin_cambio(variables, pred, FALSE)
        ELSE IF sinonimos_limpios(sinonimos) = <<>>
        THEN sin_cambio(variables, pred, FALSE)
        ELSE [_variables |->
                  con_lista_propia(variables, nombre_lower, sinonimos_limpios(sinonimos)),
              predeterminadas |-> pred, guarda |-> TRUE, valor |-> TRUE]

actualizar_variable(variables, pred, nombre, sinonimos) ==
    LET nombre_lower == Lower(nombre)
    IN  IF nombre_lower \notin DOMAIN variables
        THEN sin_cambio(variables, pred, FALSE)
        ELSE IF sinonimos_limpios(sinonimos) = <<>>
        THEN sin_cambio(variables, pred, FALSE)
        ELSE [_variables |->
                  con_lista_propia(variables, nombre_lower, sinonimos_limpios(sinonimos)),
              predeterminadas |-> pred, guarda |-> TRUE, valor |-> TRUE]

eliminar_variable(variables, pred, nombre) ==
    LET nombre_lower == Lower(nombre)
    IN  IF nombre_lower \notin DOMAIN variables
        THEN sin_cambio(variables, pred, FALSE)
        ELSE [_variables |-> [n \in DOMAIN variables \ {nombre_lower} |-> variables[n]],
              predeterminadas |-> pred, guarda |-> TRUE, valor |-> TRUE]

\* self._variables = DEFAULT_VARIABLES.copy(): every default key, each with
\* the list object of DEFAULT_VARIABLES
resetear_a_predeterminadas(variables, pred) ==
    [_variables |-> [n \in DOMAIN pred |-> [compartida |-> TRUE, lista |-> <<>>]],
     predeterminadas |-> pred, guarda |-> TRUE, valor |-> TRUE]

agregar_sinonimo(variables, pred, nombre_variable, sinonimo) ==
    LET nombre_lower == Lower(nombre_variable)
        sinonimo_limpio == Strip(sinonimo)
    IN  IF nombre_lower \notin DOMAIN variables \/ sinonimo_limpio = <<>>
        THEN sin_cambio(variables, pred, FALSE)
        ELSE IF ~EstaEn(lista_de_variable(variables, pred, nombre_lower), sinonimo_limpio)
        THEN LET c == lista_cambiada(variables, pred, nombre_lower,
                          Append(lista_de_variable(variables, pred, nombre_lower),
                                 sinonimo_limpio))
             IN  [_variables |-> c._variables, predeterminadas |-> c.predeterminadas,
                  guarda |-> TRUE, valor |-> TRUE]
        ELSE sin_cambio(variables, pred, TRUE)

\* the synonym is removed as given, not stripped; the list is changed before
\* the test for an empty list, which returns False and leaves it empty
remover_sinonimo(variables, pred, nombre_variable, sinonimo) ==
    LET nombre_lower == Lower(nombre_variable)
    IN  IF nombre_lower \notin DOMAIN variables
        THEN sin_cambio(variables, pred, FALSE)
        ELSE IF ~EstaEn(lista_de_variable(variables, pred, nombre_lower), sinonimo)
        THEN sin_cambio(variables, pred, FALSE)
        ELSE LET c == lista_cambiada(variables, pred, nombre_lower,
                          remove(lista_de_variable(variables, pred, nombre_lower),
                                 sinonimo))
                 vacia == Len(lista_de_variable(variables, pred, nombre_lower)) = 1
             IN  [_variables |-> c._variables, predeterminadas |-> c.predeterminadas,
                  guarda |-> ~vacia, valor |-> FALSE]

(***************************************************************************)
(* Inputs of the model                                                     *)
(***************************************************************************)
\* thresholds in [0, 1]: 0.0, the default 0.6, 0.8571 (just under 6/7) and 1.0
UmbralesEnRango == {0, SIMILARITY_THRESHOLD, 8571, UmbralEscala}
\* and the nearest values outside [0, 1]
UmbralesPedidos == UmbralesEnRango \cup {0 - 1, UmbralEscala + 1}

Entradas ==
    [variable_key : Claves,
     sinonimos : SeqsHasta(SinonimosPosibles, MaxSinonimos),
     columnas : SeqsHasta(ColumnasPosibles, MaxColumnas)]

\* raw texts for normalizar_texto: a lower and an upper case letter, a digit,
\* a separator, a space, a precomposed accented letter, a combining mark
CaracteresCrudos == {"a", "B", "1", "_", " ", "U00E1", "U0301"}

\* texts for calcular_similitud
CaracteresSimilitud == {"a", "b", "c"}

(***************************************************************************)
(* The engine: one engine, one search input, threshold changes and         *)
(* searches in any order                                                   *)
(***************************************************************************)
Init ==
    /\ texto1 = <<>>
    /\ texto2 = <<>>
    /\ salida = None
    /\ \E argumento \in {None} \cup {Some(u) : u \in UmbralesEnRango} :
           umbral_similitud = umbral_inicial(argumento)
    /\ entrada \in Entradas
    /\ resultado = None
    /\ umbral_busqueda = None
    /\ SinLlamadas

AjustarUmbral ==
    /\ \E nuevo_umbral \in UmbralesPedidos :
           umbral_similitud' = ajustar_umbral(umbral_similitud, nuevo_umbral)
    /\ UNCHANGED <<texto1, texto2, salida, entrada, resultado, umbral_busqueda>>
    /\ UNCHANGED vars_llamadas

BuscarVariable ==
    /\ resultado' = Some(buscar_variable(umbral_similitud, entrada.variable_key,
                                         entrada.sinonimos, entrada.columnas))
    /\ umbral_busqueda' = Some(umbral_similitud)
    /\ UNCHANGED <<texto1, texto2, salida, umbral_similitud, entrada>>
    /\ UNCHANGED vars_llamadas

Next == AjustarUmbral \/ BuscarVariable

Spec == Init /\ [][Next]_vars

(***************************************************************************)
(* normalizar_texto applied to one raw text, and again to its own output   *)
(***************************************************************************)
InitNorm ==
    /\ texto1 \in SeqsHasta(CaracteresCrudos, MaxTexto)
    /\ texto2 = <<>>
    /\ salida = None
    /\ umbral_similitud = SIMILARITY_THRESHOLD
    /\ entrada = None
    /\ resultado = None
    /\ umbral_busqueda = None
    /\ SinLlamadas

Normalizar ==
    /\ salida = None
    /\ salida' = Some([una |-> normalizar_texto(texto1),
                       dos |-> normalizar_texto(normalizar_texto(texto1))])
    /\ UNCHANGED <<texto1, texto2, umbral_similitud, entrada, resultado, umbral_busqueda>>
    /\ UNCHANGED vars_llamadas

NextNorm == Normalizar

SpecNorm == InitNorm /\ [][NextNorm]_vars

(***************************************************************************)
(* calcular_similitud applied to two texts, in both orders                 *)
(***************************************************************************)
InitSim ==
    /\ texto1 \in SeqsHasta(CaracteresSimilitud, MaxSim)
    /\ texto2 \in SeqsHasta(CaracteresSimilitud, MaxSim)
    /\ salida = None
    /\ umbral_similitud = SIMILARITY_THRESHOLD
    /\ entrada = None
    /\ resultado = None
    /\ umbral_busqueda = None
    /\ SinLlamadas

CalcularSimilitud ==
    /\ salida = None
    /\ salida' = Some([ab |-> calcular_similitud(texto1, texto2),
                       ba |-> calcular_similitud(texto2, texto1)])
    /\ UNCHANGED <<texto1, texto2, umbral_similitud, entrada, resultado, umbral_busqueda>>
    /\ UNCHANGED vars_llamadas

NextSim == CalcularSimilitud

SpecSim == InitSim /\ [][NextSim]_vars

(***************************************************************************)
(* One diet search over columns with and without the keywords of the       *)
(* buckets                                                                 *)
(***************************************************************************)
EntradasDieta ==
    [variable_key : {dieta},
     sinonimos : SeqsHasta(SinonimosDieta, MaxSinonimos),
     columnas : SeqsHasta(ColumnasDieta, MaxColumnas)]

InitDieta ==
    /\ texto1 = <<>>
    /\ texto2 = <<>>
    /\ salida = None
    /\ umbral_similitud \in {0, SIMILARITY_THRESHOLD}
    /\ entrada \in EntradasDieta
    /\ resultado = None
    /\ umbral_busqueda = None
    /\ SinLlamadas

NextDieta == BuscarVariable

SpecDieta == InitDieta /\ [][NextDieta]_vars

(***************************************************************************)
(* One search of all the configured variables in one dataset               *)
(***************************************************************************)
\* synonym lists of a configured variable: none, a near match of the fruit
\* column, an exact match of the vegetable column with one that normalizes to
\* the empty text
SinonimosDeVariable ==
    { <<>>, << <<"f","r","u">> >>, << <<"v","e","g","e","t","a","l">>, <<"_">> >> }

\* the keys of a mapping: the diet key, one handled as diet for its lower
\* case, one of the standard policy
ClavesDeConfiguracion ==
    { <<"d","i","e","t","a">>, <<"D","i","e","t","a">>, <<"b","m","i">> }

\* the items of a mapping: keys are distinct
ConfiguracionesPosibles ==
    {c \in SeqsHasta(ClavesDeConfiguracion \X SinonimosDeVariable, MaxVariables) :
        \A i, j \in 1..Len(c) : i # j => c[i][1] # c[j][1]}

\* datasets of up to one column more than the single searches have, so that a
\* dataset with a found column can have more than half of its columns
\* unmatched
InitTodas ==
    /\ texto1 = <<>>
    /\ texto2 = <<>>
    /\ salida = None
    /\ umbral_similitud \in {SIMILARITY_THRESHOLD, UmbralEscala}
    /\ entrada \in [variables_config : ConfiguracionesPosibles,
                     columnas : SeqsHasta(ColumnasPosibles, MaxColumnas + 1)]
    /\ resultado = None
    /\ umbral_busqueda = None
    /\ SinLlamadas

BuscarTodasVariables ==
    /\ salida = None
    /\ salida' = Some([resultados |->
                           buscar_todas_variables(umbral_similitud,
                               entrada.variables_config, entrada.columnas),
                       construcciones |->
                           Len(construcciones_de_candidatos(entrada.variables_config,
                                                            entrada.columnas, 1)),
                       normalizaciones |->
                           normalizaciones_de_columnas(entrada.variables_config,
                                                       entrada.columnas)])
    /\ umbral_busqueda' = Some(umbral_similitud)
    /\ UNCHANGED <<texto1, texto2, umbral_similitud, entrada, resultado>>
    /\ UNCHANGED vars_llamadas

ObtenerSugerenciasMejora ==
    /\ salida # None
    /\ "sugerencias" \notin DOMAIN salida[1]
    /\ salida' = Some([resultados |-> salida[1].resultados,
                       construcciones |-> salida[1].construcciones,
                       normalizaciones |-> salida[1].normalizaciones,
                       sugerencias |->
                           obtener_sugerencias_mejora(salida[1].resultados,
                                                      entrada.columnas)])
    /\ UNCHANGED <<texto1, texto2, umbral_similitud, entrada, resultado, umbral_busqueda>>
    /\ UNCHANGED vars_llamadas

NextTodas == BuscarTodasVariables \/ ObtenerSugerenciasMejora

SpecTodas == InitTodas /\ [][NextTodas]_vars

(***************************************************************************)
(* obtener_estadisticas_busqueda applied to one result list, and           *)
(* _determinar_estado_general to its statistics                            *)
(***************************************************************************)
\* the keys of Config.DEFAULT_VARIABLES in order, and one added variable
ClavesDeResultados ==
    <<"glucosa", "bmi", "edad", "hba1c", "dieta", "obesidad", "polidipsia", "embarazo",
      "insulina">>

\* what a search with threshold 0.6 leaves in the fields the statistics read:
\* an exact match, two partial matches (6/7 and 3/5), a near miss (1/2)
FormasDeResultado ==
    { [encontrada |-> TRUE, confianza |-> 1000],
      [encontrada |-> TRUE, confianza |-> 857],
      [encontrada |-> TRUE, confianza |-> 600],
      [encontrada |-> FALSE, confianza |-> 500] }

\* the result list of the given forms, the i-th tagged with the i-th key
lista_de(formas) ==
    [i \in 1..Len(formas) |-> [variable |-> ClavesDeResultados[i],
                               encontrada |-> formas[i].encontrada,
                               confianza |-> formas[i].confianza]]

InitEstadisticas ==
    /\ texto1 = <<>>
    /\ texto2 = <<>>
    /\ salida = None
    /\ umbral_similitud = SIMILARITY_THRESHOLD
    /\ \E formas \in SeqsHasta(FormasDeResultado, MaxResultados) :
           entrada = [resultados |-> lista_de(formas)]
    /\ resultado = None
    /\ umbral_busqueda = None
    /\ SinLlamadas

ObtenerEstadisticas ==
    /\ salida = None
    /\ \E confianza_promedio \in
              confianzas_promedio(confianzas_encontradas(entrada.resultados)) :
           salida' = Some([estadisticas |->
                              obtener_estadisticas_busqueda(umbral_similitud,
                                  entrada.resultados, confianza_promedio)])
    /\ UNCHANGED <<texto1, texto2, umbral_similitud, entrada, resultado, umbral_busqueda>>
    /\ UNCHANGED vars_llamadas

DeterminarEstadoGeneral ==
    /\ salida # None
    /\ "estado_general" \notin DOMAIN salida[1]
    /\ salida' = Some([estadisticas |-> salida[1].estadisticas,
                       estado_general |->
                           _determinar_estado_general(salida[1].estadisticas)])
    /\ UNCHANGED <<texto1, texto2, umbral_similitud, entrada, resultado, umbral_busqueda>>
    /\ UNCHANGED vars_llamadas

NextEstadisticas == ObtenerEstadisticas \/ DeterminarEstadoGeneral

SpecEstadisticas == InitEstadisticas /\ [][NextEstadisticas]_vars

(***************************************************************************)
(* One engine from its construction on, under calls of ajustar_umbral      *)
(***************************************************************************)
\* 0.0, 0.1, ..., 1.0
UmbralesFinos == {k * Pot10(3) : k \in 0..10}

\* the value the engine accepted last before the call recorded in retorno:
\* the constructor argument, the default when there was none
aceptado_antes ==
    IF retorno # None THEN retorno[1].aceptado
    ELSE IF entrada.argumento # None THEN entrada.argumento[1]
    ELSE SIMILARITY_THRESHOLD

InitUmbral ==
    /\ texto1 = <<>>
    /\ texto2 = <<>>
    /\ salida = None
    /\ \E argumento \in {None} \cup {Some(u) : u \in UmbralesEnRango \cup UmbralesFinos} :
           /\ umbral_similitud = umbral_inicial(argumento)
           /\ entrada = [argumento |-> argumento]
    /\ resultado = None
    /\ umbral_busqueda = None
    /\ _variables = None
    /\ predeterminadas = None
    /\ archivo = None
    /\ retorno = None
    /\ peticiones = None

\* one call of ajustar_umbral; aceptado keeps the argument of the last call
\* that returned True
LlamarAjustarUmbral ==
    /\ \E nuevo_umbral \in UmbralesPedidos \cup UmbralesFinos :
           /\ umbral_similitud' = ajustar_umbral(umbral_similitud, nuevo_umbral)
           /\ retorno' = Some([nuevo_umbral |-> nuevo_umbral,
                               valor |-> ajustar_umbral_retorno(nuevo_umbral),
                               anterior |-> umbral_similitud,
                               aceptado |-> IF ajustar_umbral_retorno(nuevo_umbral)
                                            THEN nuevo_umbral ELSE aceptado_antes])
    /\ UNCHANGED <<texto1, texto2, salida, entrada, resultado, umbral_busqueda>>
    /\ UNCHANGED <<_variables, predeterminadas, archivo, peticiones>>

NextUmbral == LlamarAjustarUmbral

SpecUmbral == InitUmbral /\ [][NextUmbral]_vars

(***************************************************************************)
(* Specification of the variable store: a VariableManager constructed with *)
(* no configuration file, then any calls of its six mutations. Each call   *)
(* that reaches _guardar_variables() may find the file unwritable.         *)
(***************************************************************************)
\* DEFAULT_VARIABLES, abridged to two variables and their first synonyms
DEFAULT_VARIABLES ==
    [nombre \in {<<"b", "m", "i">>, <<"e", "d", "a", "d">>} |->
        IF nombre = <<"b", "m", "i">> THEN << <<"b", "m", "i">> >>
                                      ELSE << <<"e", "d", "a", "d">> >>]

\* names a caller gives: a default key, the same in capitals, a new key
\* with blanks around it, the new key as stored, and a blank name
NombresDeLlamada ==
    {<<"b", "m", "i">>, <<"B", "M", "I">>, <<" ", "X">>, <<"x">>, <<" ">>}

\* synonyms a caller gives: one stored by default, a new one with a blank
\* before it, the new one as stored, and a blank one
SinonimosDeLlamada == {<<"b", "m", "i">>, <<" ", "w">>, <<"w">>, <<" ">>}

\* synonym lists a caller gives: none, only a blank one, one to be trimmed,
\* and two with a blank one between them
ListasDeLlamada ==
    {<<>>, << <<" ">> >>, << <<" ", "w">> >>, << <<"v">>, <<" ">>, <<"w", " ">> >>}

InitGestor ==
    /\ texto1 = <<>>
    /\ texto2 = <<>>
    /\ salida = None
    /\ umbral_similitud = SIMILARITY_THRESHOLD
    /\ entrada = None
    /\ resultado = None
    /\ umbral_busqueda = None
    /\ _variables = [n \in DOMAIN DEFAULT_VARIABLES |-> [compartida |-> TRUE, lista |-> <<>>]]
    /\ predeterminadas = DEFAULT_VARIABLES
    /\ archivo = None
    /\ retorno = None
    /\ peticiones = None

\* calls made so far on the VariableManager
llamadas == IF retorno = None THEN 0 ELSE retorno[1].llamada

\* the call ends: r is what the operation left; when it reached
\* _guardar_variables() the file takes the mapping if the write succeeds and
\* the call returns whether it did
Terminar(operacion, nombre, sinonimos, r) ==
    /\ llamadas < MaxLlamadas
    /\ \E exito \in (IF r.guarda THEN BOOLEAN ELSE {TRUE}) :
           /\ archivo' = IF r.guarda /\ exito
                          THEN Some(contenido(r._variables, r.predeterminadas))
                          ELSE archivo
           /\ retorno' = Some([llamada |-> llamadas + 1,
                               operacion |-> operacion,
                               nombre |-> nombre,
                               sinonimos |-> sinonimos,
                               valor |-> IF r.guarda THEN exito ELSE r.valor,
                               guarda |-> r.guarda,
                               antes |-> contenido(_variables, predeterminadas),
                               predeterminadas_antes |-> predeterminadas])
    /\ _variables' = r._variables
    /\ predeterminadas' = r.predeterminadas
    /\ UNCHANGED <<texto1, texto2, salida, umbral_similitud, entrada, resultado,
                   umbral_busqueda, peticiones>>

CrearVariable ==
    \E nombre \in NombresDeLlamada, sinonimos \in ListasDeLlamada :
        Terminar("crear_variable", nombre, sinonimos,
                 crear_variable(_variables, predeterminadas, nombre, sinonimos))

ActualizarVariable ==
    \E nombre \in NombresDeLlamada, sinonimos \in ListasDeLlamada :
        Terminar("actualizar_variable", nombre, sinonimos,
                 actualizar_variable(_variables, predeterminadas, nombre, sinonimos))

EliminarVariable ==
    \E nombre \in NombresDeLlamada :
        Terminar("eliminar_variable", nombre, <<>>,
                 eliminar_variable(_variables, predeterminadas, nombre))

ResetearAPredeterminadas ==
    Terminar("resetear_a_predeterminadas", <<>>, <<>>,
             resetear_a_predeterminadas(_variables, predeterminadas))

AgregarSinonimo ==
    \E nombre \in NombresDeLlamada, sinonimo \in SinonimosDeLlamada :
        Terminar("agregar_sinonimo", nombre, <<sinonimo>>,
                 agregar_sinonimo(_variables, predeterminadas, nombre, sinonimo))

RemoverSinonimo ==
    \E nombre \in NombresDeLlamada, sinonimo \in SinonimosDeLlamada :
        Terminar("remover_sinonimo", nombre, <<sinonimo>>,
                 remover_sinonimo(_variables, predeterminadas, nombre, sinonimo))

NextGestor ==
    \/ CrearVariable
    \/ ActualizarVariable
    \/ EliminarVariable
    \/ ResetearAPredeterminadas
    \/ AgregarSinonimo
    \/ RemoverSinonimo

SpecGestor == InitGestor /\ [][NextGestor]_vars

(***************************************************************************)
(* Specification of the requests: analizar_dataset requests served by      *)
(* threads over the one module-level SimilarityEngine, next to requests    *)
(* that set the threshold. A request is at one of the places where its     *)
(* thread reads or writes self.umbral_similitud; another thread may run    *)
(* between any two of them. Every request searches the one standard        *)
(* variable of entrada in the columns of entrada.                          *)
(***************************************************************************)
\* 'if umbral_personalizado:' on an Optional float: None and 0.0 are falsy
EsVerdadero(umbral_personalizado) ==
    umbral_personalizado # None /\ umbral_personalizado[1] # 0

\* the custom thresholds of a request: none, 0.0 and 1.0
UmbralesPersonalizados == {None, Some(0), Some(UmbralEscala)}

\* the thresholds of the requests that set it: 0.0, the default and 1.0
UmbralesConfigurados == {0, SIMILARITY_THRESHOLD, UmbralEscala}

\* a standard variable with a near match of the one column (6/7, accepted
\* under the default threshold) or a far one (accepted only under 0.0)
EntradasDePeticion ==
    [variable_key : {<<"b","m","i">>},
     sinonimos : {<< <<"f","r","u">> >>, << <<"v","e","g","e","t","a","l">> >>},
     columnas : {<< <<"F","r","u","t">> >>}]

InitPeticiones ==
    /\ texto1 = <<>>
    /\ texto2 = <<>>
    /\ salida = None
    /\ umbral_similitud = umbral_inicial(None)
    /\ entrada \in EntradasDePeticion
    /\ resultado = None
    /\ umbral_busqueda = None
    /\ _variables = None
    /\ predeterminadas = None
    /\ archivo = None
    /\ retorno = None
    /\ peticiones \in [1..MaxPeticiones ->
                          [umbral_personalizado : UmbralesPersonalizados,
                           pc : {"ajustar"},
                           resultado : {None},
                           estadisticas : {None}]]

\* what a step of a request leaves alone
SoloPeticiones ==
    UNCHANGED <<texto1, texto2, salida, entrada, resultado, umbral_busqueda,
                _variables, predeterminadas, archivo, retorno>>

\* if umbral_personalizado: similarity_engine.ajustar_umbral(umbral_personalizado)
AjustarSiPersonalizado(p) ==
    /\ peticiones[p].pc = "ajustar"
    /\ umbral_similitud' =
           IF EsVerdadero(peticiones[p].umbral_personalizado)
           THEN ajustar_umbral(umbral_similitud, peticiones[p].umbral_personalizado[1])
           ELSE umbral_similitud
    /\ peticiones' = [peticiones EXCEPT ![p].pc = "encontrada"]
    /\ SoloPeticiones

\* the search up to the first entries of the result: 'encontrada' reads
\* self.umbral_similitud
DecidirEncontrada(p) ==
    /\ peticiones[p].pc = "encontrada"
    /\ LET mejor == mejor_simple(entrada.sinonimos, entrada.columnas)
       IN  peticiones' =
               [peticiones EXCEPT
                    ![p].pc = "umbral_usado",
                    ![p].resultado =
                        Some([encontrada |-> ScoreAlcanza(mejor.score, umbral_similitud),
                              columna |-> StrONone(mejor.columna),
                              confianza |-> round(mejor.score, DECIMALES),
                              sinonimo_match |-> StrONone(mejor.sinonimo)])]
    /\ UNCHANGED umbral_similitud
    /\ SoloPeticiones

\* the last entry of the result: 'umbral_usado' reads self.umbral_similitud
\* again
RegistrarUmbralUsado(p) ==
    /\ peticiones[p].pc = "umbral_usado"
    /\ LET r == peticiones[p].resultado[1]
       IN  peticiones' =
               [peticiones EXCEPT
                    ![p].pc = "estadisticas",
                    ![p].resultado =
                        Some([encontrada |-> r.encontrada,
                              columna |-> r.columna,
                              confianza |-> r.confianza,
                              sinonimo_match |-> r.sinonimo_match,
                              umbral_usado |-> umbral_similitud])]
    /\ UNCHANGED umbral_similitud
    /\ SoloPeticiones

\* obtener_estadisticas_busqueda: 'umbral_usado' of the statistics reads
\* self.umbral_similitud
EstadisticasDePeticion(p) ==
    /\ peticiones[p].pc = "estadisticas"
    /\ peticiones' =
           [peticiones EXCEPT
                ![p].pc = "fin",
                ![p].estadisticas =
                    Some([umbral_usado |->
                              obtener_estadisticas_busqueda(umbral_similitud,
                                  <<etiquetar(peticiones[p].resultado[1],
                                              entrada.variable_key)>>, 0).umbral_usado])]
    /\ UNCHANGED umbral_similitud
    /\ SoloPeticiones

\* a request that sets the threshold: similarity_engine.ajustar_umbral(umbral)
ConfigurarUmbral ==
    /\ \E nuevo_umbral \in UmbralesConfigurados :
           umbral_similitud' = ajustar_umbral(umbral_similitud, nuevo_umbral)
    /\ UNCHANGED peticiones
    /\ SoloPeticiones

NextPeticiones ==
    \/ \E p \in 1..MaxPeticiones : AjustarSiPersonalizado(p)
    \/ \E p \in 1..MaxPeticiones : DecidirEncontrada(p)
    \/ \E p \in 1..MaxPeticiones : RegistrarUmbralUsado(p)
    \/ \E p \in 1..MaxPeticiones : EstadisticasDePeticion(p)
    \/ ConfigurarUmbral

SpecPeticiones == InitPeticiones /\ [][NextPeticiones]_vars

(***************************************************************************)
(* Properties                                                              *)
(***************************************************************************)
\* the (column, synonym) pairs of the search input, by position
Pares == (1..Len(entrada.columnas)) \X (1..Len(entrada.sinonimos))

\* the similarity of the pair at position p
ScorePar(p) ==
    calcular_similitud(normalizar_texto(entrada.columnas[p[1]]),
                       normalizar_texto(entrada.sinonimos[p[2]]))

\* the greatest similarity over all pairs, 0.0 when there is no pair
MaxScore ==
    IF Pares = {} THEN Cero
    ELSE ScorePar(CHOOSE p \in Pares : \A q \in Pares : MayorIgual(ScorePar(p), ScorePar(q)))

\* the result comes from the diet policy: only that one has notes
EsResultadoDieta == "notas" \in DOMAIN resultado[1]

\* C1: a MatchResult with encontrada = true reports a confianza (the score
\* rounded to 3 decimals) that is >= the threshold used in that search.
C1_ConfianzaAlcanzaUmbral ==
    resultado # None =>
        (resultado[1].encontrada =>
            ConfianzaAlcanza(resultado[1].confianza, umbral_busqueda[1]))

\* C2: a MatchResult with encontrada = false has confianza 0.0.
C2_NoEncontradaConfianzaCero ==
    resultado # None => (~resultado[1].encontrada => resultado[1].confianza = 0)

\* C2, amended: with encontrada = false the confianza is 0.0 under the diet
\* policy, and under the standard policy it is the best score rounded to 3
\* decimals.
C2_NoEncontradaSegunPolitica ==
    (resultado # None /\ ~resultado[1].encontrada) =>
        IF EsResultadoDieta
        THEN resultado[1].confianza = 0
        ELSE resultado[1].confianza = round(MaxScore, DECIMALES)

C2_Witness ==
    /\ resultado # None
    /\ ~EsResultadoDieta
    /\ ~resultado[1].encontrada
    /\ resultado[1].confianza > 0

\* C3: under the standard policy encontrada = (best score >= threshold), the
\* best score being the greatest similarity over all (column, synonym) pairs,
\* and confianza = round(best score, 3) whether or not encontrada holds.
C3_PoliticaEstandar ==
    (resultado # None /\ ~EsResultadoDieta) =>
        /\ resultado[1].encontrada = ScoreAlcanza(MaxScore, umbral_busqueda[1])
        /\ resultado[1].confianza = round(MaxScore, DECIMALES)

C3_Witness ==
    /\ resultado # None
    /\ ~EsResultadoDieta
    /\ Cardinality(Pares) >= 2
    /\ \E p, q \in Pares : Mayor(ScorePar(p), ScorePar(q))
    /\ resultado[1].encontrada
    /\ resultado[1].confianza < Pot10(DECIMALES)

\* C4: with an empty column list, or an empty synonym list, buscar_variable
\* returns encontrada = false, confianza = 0.0 and columna = None, for every
\* key and every threshold in [0, 1].
C4_SinColumnasOSinonimos ==
    (resultado # None /\ (entrada.columnas = <<>> \/ entrada.sinonimos = <<>>)) =>
        /\ ~resultado[1].encontrada
        /\ resultado[1].confianza = 0
        /\ resultado[1].columna = None

\* C5: threshold monotonicity: when the search returned encontrada = true with
\* threshold T, the same search with any threshold T' < T in [0, 1] returns
\* encontrada = true, under both policies.
C5_MonotoniaUmbral ==
    (resultado # None /\ resultado[1].encontrada) =>
        \A menor \in UmbralesEnRango :
            menor < umbral_busqueda[1] =>
                buscar_variable(menor, entrada.variable_key,
                                entrada.sinonimos, entrada.columnas).encontrada

C5_Witness ==
    /\ resultado # None
    /\ resultado[1].encontrada
    /\ umbral_busqueda[1] = UmbralEscala
    /\ Pares # {}

\* C6: calcular_similitud is symmetric: calcular_similitud(a, b) equals
\* calcular_similitud(b, a) for all texts a and b.
C6_Simetria ==
    salida # None => Igual(salida[1].ab, salida[1].ba)

\* C7: calcular_similitud(a, b) lies in [0, 1], and calcular_similitud(a, a)
\* is 1.0 for every non-empty a.
C7_Cotas ==
    salida # None =>
        /\ salida[1].ab.den > 0
        /\ 0 <= salida[1].ab.num
        /\ salida[1].ab.num <= salida[1].ab.den
        /\ (texto1 = texto2 /\ texto1 # <<>>) => salida[1].ab.num = salida[1].ab.den

C7_Witness ==
    /\ salida # None
    /\ texto1 = texto2
    /\ Len(texto1) >= 2
    /\ Igual(salida[1].ab, Uno)

\* C8: normalizar_texto is idempotent, and its output has only characters of
\* [a-z0-9] and single interior spaces, with no leading or trailing space.
C8_Idempotencia ==
    salida # None =>
        LET n == salida[1].una
        IN  /\ salida[1].dos = n
            /\ \A i \in 1..Len(n) : EsAZ09(n[i]) \/ n[i] = " "
            /\ \A i \in 1..(Len(n) - 1) : ~(n[i] = " " /\ n[i + 1] = " ")
            /\ n # <<>> => (n[1] # " " /\ n[Len(n)] # " ")

C8_Witness ==
    /\ salida # None
    /\ salida[1].una # texto1
    /\ \E i \in 1..Len(salida[1].una) : salida[1].una[i] = " "

\* C9: buscar_variable selects the diet policy exactly when the key equals,
\* case-insensitively, "dieta" or "diet".
C9_ClaveDietaODiet ==
    resultado # None =>
        (EsResultadoDieta <=>
            Lower(entrada.variable_key) \in { <<"d","i","e","t","a">>, <<"d","i","e","t">> })

\* C9, amended: buscar_variable selects the diet policy exactly when the key
\* equals, case-insensitively, "dieta"; every other key, "diet" included, is
\* handled by the standard policy.
C9_ClaveDieta ==
    resultado # None =>
        (EsResultadoDieta <=> Lower(entrada.variable_key) = <<"d","i","e","t","a">>)

C9_Witness ==
    /\ resultado # None
    /\ EsResultadoDieta
    /\ entrada.variable_key # <<"d","i","e","t","a">>

\* C10: the diet policy never double-counts: the sizes of frutas, vegetales
\* and generales sum to the number of (column, synonym) pairs whose similarity
\* is >= the threshold, and each accepted pair is in exactly one bucket.
C10_SinDobleConteo ==
    (resultado # None /\ EsResultadoDieta) =>
        LET d == resultado[1].detalles
            aceptados == {p \in Pares : ScoreAlcanza(ScorePar(p), umbral_busqueda[1])}
            match(p) == <<entrada.columnas[p[1]], ScorePar(p), entrada.sinonimos[p[2]]>>
            Esta(lista, x) == \E i \in 1..Len(lista) : lista[i] = x
        IN  /\ Len(d.frutas) + Len(d.vegetales) + Len(d.generales) = Cardinality(aceptados)
            /\ \A p \in aceptados :
                   Cardinality({b \in {"frutas", "vegetales", "generales"} :
                                    Esta(d[b], match(p))}) = 1

C10_Witness ==
    /\ resultado # None
    /\ EsResultadoDieta
    /\ resultado[1].detalles.frutas # <<>>
    /\ resultado[1].detalles.generales # <<>>
    /\ Len(resultado[1].detalles.frutas) + Len(resultado[1].detalles.generales) >= 3

\* C11: in the diet policy an accepted pair is in the fruit bucket iff the
\* normalized column contains "frut" or "fruit"; otherwise in the vegetable
\* bucket iff it contains "vegetal", "verdura" or "vegetable"; otherwise in the
\* general bucket. The synonym never influences the bucket, and a column with
\* both a fruit and a vegetable keyword goes to the fruit bucket.
C11_Cubetas ==
    (resultado # None /\ EsResultadoDieta) =>
        LET d == resultado[1].detalles
            TieneFruta(n) == Contiene(n, <<"f","r","u","t">>)
                             \/ Contiene(n, <<"f","r","u","i","t">>)
            TieneVegetal(n) == Contiene(n, <<"v","e","g","e","t","a","l">>)
                               \/ Contiene(n, <<"v","e","r","d","u","r","a">>)
                               \/ Contiene(n, <<"v","e","g","e","t","a","b","l","e">>)
            Cubeta(columna) ==
                LET n == normalizar_texto(columna)
                IN  IF TieneFruta(n) THEN "frutas"
                    ELSE IF TieneVegetal(n) THEN "vegetales"
                    ELSE "generales"
            aceptados == {p \in Pares : ScoreAlcanza(ScorePar(p), umbral_busqueda[1])}
            match(p) == <<entrada.columnas[p[1]], ScorePar(p), entrada.sinonimos[p[2]]>>
            Esta(lista, x) == \E i \in 1..Len(lista) : lista[i] = x
        IN  /\ \A b \in {"frutas", "vegetales", "generales"} :
                   \A i \in 1..Len(d[b]) : Cubeta(d[b][i][1]) = b
            /\ \A p \in aceptados :
                   Esta(d[Cubeta(entrada.columnas[p[1]])], match(p))

\* a column with both keywords in the fruit bucket, and a column without
\* keyword accepted with the fruit synonym in the general bucket
C11_Witness ==
    /\ resultado # None
    /\ EsResultadoDieta
    /\ \E i \in 1..Len(resultado[1].detalles.frutas) :
           resultado[1].detalles.frutas[i][1] = <<"f","r","u","t","v","e","r","d","u","r","a">>
    /\ \E i \in 1..Len(resultado[1].detalles.generales) :
           resultado[1].detalles.generales[i][3] = <<"f","r","u","t">>
    /\ entrada.columnas # <<>>

\* the pair p comes before the pair q in the scan: columns in dataset order,
\* and for one column the synonyms in list order
AntesEnBarrido(p, q) == p[1] < q[1] \/ (p[1] = q[1] /\ p[2] < q[2])

\* C12: in the diet policy, when at least one pair is accepted, the
\* representative columna / confianza / sinonimo_match is the accepted match
\* with the greatest score over the three buckets, and among accepted matches
\* of equal greatest score the one first seen in the scan over the pairs.
C12_RepresentantePrimeroVisto ==
    (resultado # None /\ EsResultadoDieta /\ resultado[1].encontrada) =>
        LET aceptados == {p \in Pares : ScoreAlcanza(ScorePar(p), umbral_busqueda[1])}
            maximos == {p \in aceptados :
                            \A q \in aceptados : MayorIgual(ScorePar(p), ScorePar(q))}
            primero == CHOOSE p \in maximos :
                            \A q \in maximos : q # p => AntesEnBarrido(p, q)
        IN  /\ resultado[1].columna = Some(entrada.columnas[primero[1]])
            /\ resultado[1].sinonimo_match = Some(entrada.sinonimos[primero[2]])
            /\ resultado[1].confianza = round(ScorePar(primero), DECIMALES)

\* C13: in the diet policy encontrada is true iff at least one (column,
\* synonym) pair has similarity >= threshold; when none has, the result is
\* encontrada = false, confianza = 0.0, columna = None, sinonimo_match = None,
\* the no-matches note, and three empty buckets.
C13_DietaEncontrada ==
    (resultado # None /\ EsResultadoDieta) =>
        LET hay == \E p \in Pares :
                       ScorePar(p).num * UmbralEscala >= umbral_busqueda[1] * ScorePar(p).den
        IN  /\ resultado[1].encontrada = hay
            /\ ~hay =>
                   /\ resultado[1].confianza = 0
                   /\ resultado[1].columna = None
                   /\ resultado[1].sinonimo_match = None
                   /\ resultado[1].notas =
                          << [texto |-> "No se encontraron coincidencias de dieta", n |-> 0] >>
                   /\ resultado[1].detalles =
                          [frutas |-> <<>>, vegetales |-> <<>>, generales |-> <<>>]

\* a diet search whose best pair is a near miss: similar, below the threshold
C13_Witness ==
    /\ resultado # None
    /\ EsResultadoDieta
    /\ ~resultado[1].encontrada
    /\ \E p \in Pares : Mayor(ScorePar(p), Cero)
    /\ umbral_busqueda[1] > SIMILARITY_THRESHOLD

\* C14: under the standard policy the reported (columna, sinonimo_match) is
\* the first pair, in scan order, whose similarity equals the maximum over all
\* pairs: an equal-scoring later pair never replaces an earlier one.
C14_PrimerMaximo ==
    (resultado # None /\ ~EsResultadoDieta /\ Pares # {}) =>
        LET maximos == {p \in Pares : \A q \in Pares : MayorIgual(ScorePar(p), ScorePar(q))}
            primero == CHOOSE p \in maximos :
                            \A q \in maximos : q # p => AntesEnBarrido(p, q)
        IN  /\ resultado[1].columna = Some(entrada.columnas[primero[1]])
            /\ resultado[1].sinonimo_match = Some(entrada.sinonimos[primero[2]])

\* C15: buscar_todas_variables returns exactly one MatchResult per key of the
\* variable mapping, in the mapping's insertion order, each tagged with its own
\* key; with an empty mapping it returns an empty list.
C15_UnResultadoPorClave ==
    salida # None =>
        LET resultados == salida[1].resultados
            items == entrada.variables_config
        IN  /\ Len(resultados) = Len(items)
            /\ \A i \in 1..Len(items) :
                   /\ resultados[i].variable = items[i][1]
                   /\ Cardinality({j \in 1..Len(resultados) :
                                       resultados[j].variable = items[i][1]}) = 1
            /\ items = <<>> => resultados = <<>>

\* two variables, the diet policy second, one found and one not
C15_Witness ==
    /\ salida # None
    /\ Len(salida[1].resultados) = 2
    /\ "notas" \in DOMAIN salida[1].resultados[2]
    /\ "notas" \notin DOMAIN salida[1].resultados[1]
    /\ salida[1].resultados[1].encontrada # salida[1].resultados[2].encontrada

\* the positions of the found results of the result list
Encontrados == {i \in 1..Len(entrada.resultados) : entrada.resultados[i].encontrada}

\* the positions of the results that are not found
Faltantes == (1..Len(entrada.resultados)) \ Encontrados

\* C16: obtener_estadisticas_busqueda returns total_variables = number of
\* results, variables_encontradas = number with encontrada = true,
\* variables_faltantes = the keys with encontrada = false in result order, so
\* that total = found + |missing|; cobertura_porcentaje is found / total * 100
\* rounded to one decimal, 0.0 when total is 0, and 62.5 for 5 found of 8.
C16_Estadisticas ==
    salida # None =>
        LET e == salida[1].estadisticas
            r == entrada.resultados
            \* the position in r of the j-th result that is not found
            falta(j) == CHOOSE i \in Faltantes :
                            Cardinality({k \in Faltantes : k <= i}) = j
            desvio == e.cobertura_porcentaje * Len(r) - 1000 * Cardinality(Encontrados)
        IN  /\ e.total_variables = Len(r)
            /\ e.variables_encontradas = Cardinality(Encontrados)
            /\ Len(e.variables_faltantes) = Cardinality(Faltantes)
            /\ \A j \in 1..Len(e.variables_faltantes) :
                   e.variables_faltantes[j] = r[falta(j)].variable
            /\ e.total_variables = e.variables_encontradas + Len(e.variables_faltantes)
            /\ 2 * desvio <= Len(r) /\ 2 * desvio >= 0 - Len(r)
            /\ r = <<>> => e.cobertura_porcentaje = 0
            /\ (Len(r) = 8 /\ Cardinality(Encontrados) = 5) => e.cobertura_porcentaje = 625

\* 5 found of 8, the missing ones not next to each other
C16_Witness ==
    /\ salida # None
    /\ salida[1].estadisticas.total_variables = 8
    /\ salida[1].estadisticas.variables_encontradas = 5
    /\ salida[1].estadisticas.variables_faltantes = <<"bmi", "dieta", "embarazo">>
    /\ salida[1].estadisticas.cobertura_porcentaje = 625

\* C17: confianza_promedio is the mean of confianza over only the results with
\* encontrada = true, rounded to 3 decimals, and 0.0 when no result is found;
\* the confidences of the results that are not found never contribute.
C17_ConfianzaPromedio ==
    salida # None =>
        LET e == salida[1].estadisticas
            r == entrada.resultados
            \* the sum of the confidences of the found results among the first k
            suma[k \in 0..Len(r)] ==
                IF k = 0 THEN 0
                ELSE suma[k - 1] + (IF r[k].encontrada THEN r[k].confianza ELSE 0)
            n == Cardinality(Encontrados)
            desvio == e.confianza_promedio * n - suma[Len(r)]
        IN  IF n = 0 THEN e.confianza_promedio = 0
            ELSE 2 * desvio <= n /\ 2 * desvio >= 0 - n

\* two found results whose mean, 0.9285, lies between two thousandths, beside
\* a near miss
C17_Witness ==
    /\ salida # None
    /\ Faltantes # {}
    /\ Cardinality(Encontrados) = 2
    /\ {entrada.resultados[i].confianza : i \in Encontrados} = {1000, 857}
    /\ salida[1].estadisticas.confianza_promedio = 928

\* the dataset columns that are not the matched column of any found result,
\* by position in the column list
ColumnasSinCoincidencia ==
    {i \in 1..Len(entrada.columnas) :
        ~\E j \in 1..Len(salida[1].resultados) :
            /\ salida[1].resultados[j].encontrada
            /\ salida[1].resultados[j].columna = Some(entrada.columnas[i])}

\* C18: obtener_sugerencias_mejora returns the subsequence of the three
\* suggestions (1: some variable is missing, 2: some found result has
\* confianza < 0.9, 3: the set of unmatched columns exceeds 50% of the columns)
\* whose conditions hold, always in the order 1, 2, 3, each condition on its
\* own; the list is empty when none holds.
C18_Sugerencias ==
    (salida # None /\ "sugerencias" \in DOMAIN salida[1]) =>
        LET r == salida[1].resultados
            s == salida[1].sugerencias
            falta == \E i \in 1..Len(r) : ~r[i].encontrada
            baja == \E i \in 1..Len(r) : r[i].encontrada /\ r[i].confianza < 900
            nombres == {entrada.columnas[i] : i \in ColumnasSinCoincidencia}
            sobran == 2 * Cardinality(nombres) > Len(entrada.columnas)
            esperadas ==
                (IF falta THEN <<"Considere agregar sinonimos para">> ELSE <<>>)
                \o (IF baja THEN <<"Revise las coincidencias con baja confianza">>
                    ELSE <<>>)
                \o (IF sobran THEN <<"columnas sin clasificar">> ELSE <<>>)
        IN  /\ Len(s) = Len(esperadas)
            /\ \A i \in 1..Len(s) : s[i].texto = esperadas[i]
            /\ (~falta /\ ~baja /\ ~sobran) => s = <<>>

\* the second and the third suggestion without the first
C18_Witness ==
    /\ salida # None
    /\ "sugerencias" \in DOMAIN salida[1]
    /\ Len(salida[1].sugerencias) = 2
    /\ salida[1].sugerencias[1].texto = "Revise las coincidencias con baja confianza"
    /\ salida[1].sugerencias[2].texto = "columnas sin clasificar"

\* C19: the third suggestion fires iff the number of dataset columns that are
\* not the matched column of any found result exceeds 50% of the number of
\* dataset columns, and it reports that number; also for column lists with
\* duplicate names, for zero columns, and when a found result has no column.
C19_ColumnasSinClasificar ==
    (salida # None /\ "sugerencias" \in DOMAIN salida[1]) =>
        LET s == salida[1].sugerencias
            terceras == {i \in 1..Len(s) : s[i].texto = "columnas sin clasificar"}
            sin_coincidencia == Cardinality(ColumnasSinCoincidencia)
        IN  /\ terceras # {} <=> 2 * sin_coincidencia > Len(entrada.columnas)
            /\ \A i \in terceras : s[i].n = sin_coincidencia

\* C20: the quality classification is a total, first-match-wins function of
\* (coverage %, mean confidence): excellent iff coverage >= 80 and confidence
\* >= 0.9; else good iff coverage >= 60 and confidence >= 0.8; else fair iff
\* coverage >= 40 and confidence >= 0.7; else poor. Any search with no found
\* variable is poor.
C20_EstadoGeneral ==
    (salida # None /\ "estado_general" \in DOMAIN salida[1]) =>
        LET e == salida[1].estadisticas
            estado == salida[1].estado_general
            excelente == e.cobertura_porcentaje >= 800 /\ e.confianza_promedio >= 900
            bueno == e.cobertura_porcentaje >= 600 /\ e.confianza_promedio >= 800
            regular == e.cobertura_porcentaje >= 400 /\ e.confianza_promedio >= 700
        IN  /\ estado \in {"excelente", "bueno", "regular", "deficiente"}
            /\ estado = "excelente" <=> excelente
            /\ estado = "bueno" <=> (~excelente /\ bueno)
            /\ estado = "regular" <=> (~excelente /\ ~bueno /\ regular)
            /\ estado = "deficiente" <=> (~excelente /\ ~bueno /\ ~regular)
            /\ e.variables_encontradas = 0 => estado = "deficiente"

\* a coverage that reaches the first test with a confidence that reaches only
\* the second, exactly
C20_Witness ==
    /\ salida # None
    /\ "estado_general" \in DOMAIN salida[1]
    /\ salida[1].estado_general = "bueno"
    /\ salida[1].estadisticas.cobertura_porcentaje = 800
    /\ salida[1].estadisticas.confianza_promedio = 800

\* C21: ajustar_umbral(v) with v outside [0.0, 1.0] returns False and leaves
\* the threshold unchanged; with v inside [0.0, 1.0], bounds included, it
\* returns True and the threshold becomes v.
C21_AjustarUmbral ==
    retorno # None =>
        LET v == retorno[1].nuevo_umbral
        IN  IF v < 0 \/ v > UmbralEscala
            THEN ~retorno[1].valor /\ umbral_similitud = retorno[1].anterior
            ELSE retorno[1].valor /\ umbral_similitud = v

\* the bound 0.0 accepted over another threshold
C21_Witness ==
    /\ retorno # None
    /\ retorno[1].nuevo_umbral = 0
    /\ retorno[1].anterior # 0
    /\ retorno[1].valor
    /\ umbral_similitud = 0

\* C26: in every reachable state of an engine constructed with no argument or
\* with an initial threshold in [0, 1], under any calls of ajustar_umbral, the
\* threshold lies in [0, 1] and equals the most recently accepted value: the
\* constructor argument if one was given, 0.6 if none was, or the argument of
\* the last call of ajustar_umbral that returned True.
C26_UltimoAceptado ==
    /\ 0 <= umbral_similitud
    /\ umbral_similitud <= UmbralEscala
    /\ umbral_similitud = aceptado_antes

\* C22: during one call of buscar_todas_variables over V variables and C
\* columns the candidate list is built exactly once, C column normalizations
\* in total, and reused for every variable, not rebuilt per variable.
C22_CandidatosUnaVez ==
    (salida # None /\ entrada.variables_config # <<>>) =>
        /\ salida[1].construcciones = 1
        /\ salida[1].normalizaciones = Len(entrada.columnas)

\* C25: every MatchResult returned by buscar_todas_variables, for standard and
\* diet variables alike, carries the threshold used (umbral_usado), and when no
\* threshold adjustment occurs during the search all results of that search
\* and the statistics computed from them record the same threshold value.
C25_UmbralUsado ==
    salida # None =>
        LET r == salida[1].resultados
            e == obtener_estadisticas_busqueda(umbral_similitud, r, 0)
        IN  \A i \in 1..Len(r) :
                /\ "umbral_usado" \in DOMAIN r[i]
                /\ r[i].umbral_usado = e.umbral_usado
                /\ r[i].umbral_usado = umbral_busqueda[1]

\* the last call on the VariableManager was operacion
UltimaLlamada(operacion) == retorno # None /\ retorno[1].operacion = operacion

\* the synonym list a caller gave has nothing left once blanks are dropped
QuedaVacia(sinonimos) == \A i \in 1..Len(sinonimos) : Strip(sinonimos[i]) = <<>>

\* C23: crear_variable returns False and adds nothing when the key is empty
\* after trimming, when it already exists (compared without case), or when
\* the synonym list is empty once blank entries are dropped;
\* actualizar_variable returns False when the key is unknown or the cleaned
\* list is empty; eliminar_variable returns False when the key is unknown.
\* In each rejected case the stored mapping is the one before the call.
C23_Rechazos ==
    retorno # None =>
        LET r == retorno[1]
            clave == Lower(r.nombre)
            rechazada ==
                \/ /\ r.operacion = "crear_variable"
                   /\ \/ Strip(clave) = <<>>
                      \/ Strip(clave) \in DOMAIN r.antes
                      \/ QuedaVacia(r.sinonimos)
                \/ /\ r.operacion = "actualizar_variable"
                   /\ clave \notin DOMAIN r.antes \/ QuedaVacia(r.sinonimos)
                \/ /\ r.operacion = "eliminar_variable"
                   /\ clave \notin DOMAIN r.antes
        IN  rechazada => /\ r.valor = FALSE
                         /\ contenido(_variables, predeterminadas) = r.antes

\* crear_variable("BMI", [" w"]) on the defaults: "bmi" exists, the call
\* returned False and the mapping has no key "BMI" and no new synonym
C23_Witness ==
    /\ UltimaLlamada("crear_variable")
    /\ retorno[1].nombre = <<"B", "M", "I">>
    /\ retorno[1].sinonimos = << <<" ", "w">> >>
    /\ retorno[1].valor = FALSE
    /\ DOMAIN _variables = DOMAIN DEFAULT_VARIABLES
    /\ contenido(_variables, predeterminadas) = DEFAULT_VARIABLES

\* C24: starting from the defaults, after any sequence of crear_variable,
\* actualizar_variable, eliminar_variable, agregar_sinonimo, remover_sinonimo
\* and resetear_a_predeterminadas calls, successful or not, every key is
\* lower-case and non-empty and maps to a non-empty list of non-empty
\* trimmed synonyms.
C24_ClavesYListas ==
    _variables # None =>
        \A nombre \in DOMAIN _variables :
            LET lista == lista_de_variable(_variables, predeterminadas, nombre)
            IN  /\ nombre # <<>>
                /\ Lower(nombre) = nombre
                /\ lista # <<>>
                /\ \A i \in 1..Len(lista) :
                       lista[i] # <<>> /\ Strip(lista[i]) = lista[i]

\* C29: resetear_a_predeterminadas restores the original default mapping
\* after any prior operations, also when agregar_sinonimo or
\* remover_sinonimo was applied to a default variable before the reset or
\* before a previous reset: every default variable has its original list.
C29_ResetRestaura ==
    UltimaLlamada("resetear_a_predeterminadas") =>
        contenido(_variables, predeterminadas) = DEFAULT_VARIABLES

\* C30: whenever a mutation of the store returns False, also when
\* persisting fails, the in-memory mapping is the one before the call, so
\* that the mapping in memory and the one last persisted do not diverge.
C30_FalsoSinCambio ==
    retorno # None /\ retorno[1].valor = FALSE =>
        contenido(_variables, predeterminadas) = retorno[1].antes

\* the requests whose result is complete
ConResultado ==
    IF peticiones = None THEN {}
    ELSE {p \in DOMAIN peticiones :
              /\ peticiones[p].resultado # None
              /\ "umbral_usado" \in DOMAIN peticiones[p].resultado[1]}

\* C27: when ajustar_umbral interleaves with a running search, each
\* MatchResult is consistent in itself: encontrada was decided against the
\* very threshold the same result records as umbral_usado.
C27_ResultadoConsistente ==
    \A p \in ConResultado :
        peticiones[p].resultado[1].encontrada =
            ScoreAlcanza(MaxScore, peticiones[p].resultado[1].umbral_usado)

\* the requests that gave a custom threshold and are done
Terminadas ==
    IF peticiones = None THEN {}
    ELSE {p \in DOMAIN peticiones :
              peticiones[p].pc = "fin" /\ peticiones[p].umbral_personalizado # None}

\* C28: an analizar_dataset request that gives a valid custom threshold u in
\* [0, 1] is evaluated with u: every match decision and the umbral_usado of
\* the statistics use u, for every u, 0.0 included, whatever other analysis
\* or threshold-setting requests run on the shared engine at the same time.
C28_UmbralDeLaPeticion ==
    \A p \in Terminadas :
        LET u == peticiones[p].umbral_personalizado[1]
        IN  /\ peticiones[p].resultado[1].encontrada = ScoreAlcanza(MaxScore, u)
            /\ peticiones[p].resultado[1].umbral_usado = u
            /\ peticiones[p].estadisticas[1].umbral_usado = u
====
